---------------------------- MODULE Spec2Model ----------------------------
(***************************************************************************)
(* Model of the kodi-mock shim: xbmcaddon.Addon (settings accessor over    *)
(* the addon registry and the mock_data override table) and xbmcvfs        *)
(* (boolean-result filesystem wrappers, listdir, File, translatePath).     *)
(*                                                                         *)
(* Python semantics are those of CPython 3 on a POSIX host.  A text value  *)
(* is a sequence of one-character strings; a Python value is a record      *)
(* [t, n, s]: t is the type name, n the number (int value, bool as 0/1,    *)
(* float in tenths) and s the characters of a str.                         *)
(***************************************************************************)
EXTENDS Integers, Sequences, FiniteSets, TLC

VARIABLES
    plugin_id,      \* _support.plugin_id: the active addon identifier
    settings,       \* _support.avail_addons[a].settings, per registered addon
    mock_setting,   \* mock_data["setting"]: the process-wide override table
    self_data,      \* Addon._data of the accessor object ("none": not constructed)
    fs,             \* the host filesystem: path -> node
    fh,             \* the File object: File._file and File._filepath
    kodi_paths,     \* addondev.support.kodi_paths: virtual root table
    pc,             \* position of the client of the File object
    ret             \* the last call: operation, arguments, result or exception

vars == <<plugin_id, settings, mock_setting, self_data, fs, fh, kodi_paths, pc, ret>>

addonVars == <<plugin_id, settings, mock_setting, self_data>>
vfsVars == <<fs, fh, pc>>

--------------------------------------------------------------------------
(* Bounds *)

MaxRoundTrip == 10   \* the int round trip is tried with -MaxRoundTrip..MaxRoundTrip
MaxLen == 3          \* longest content written to a file
MaxHint == 1         \* largest byte-count hint passed to File.read
MaxPathLen == 8      \* longest path given to translatePath, in atoms

--------------------------------------------------------------------------
(* Python values *)

PyStr(s) == [t |-> "str", n |-> 0, s |-> s]
PyInt(n) == [t |-> "int", n |-> n, s |-> <<>>]
PyBool(b) == [t |-> "bool", n |-> IF b THEN 1 ELSE 0, s |-> <<>>]
PyFloat(tenths) == [t |-> "float", n |-> tenths, s |-> <<>>]
PyNone == [t |-> "none", n |-> 0, s |-> <<>>]
\* a tuple of two sequences
PyPair(x, y) == [t |-> "tuple", n |-> 0, s |-> <<x, y>>]

True == PyBool(TRUE)
False == PyBool(FALSE)

\* isinstance(value, cls): bool is a subclass of int in Python.
isinstance(value, cls) ==
    \/ value.t = cls
    \/ cls = "int" /\ value.t = "bool"

Digits == <<"0", "1", "2", "3", "4", "5", "6", "7", "8", "9">>
DigitSet == {Digits[i] : i \in 1..10}
DigitVal(c) == CHOOSE d \in 0..9 : Digits[d + 1] = c

RECURSIVE NatToStr(_)
NatToStr(n) ==
    IF n < 10 THEN <<Digits[n + 1]>>
    ELSE Append(NatToStr(n \div 10), Digits[(n % 10) + 1])

\* str(n) for an int n
IntToStr(n) == IF n < 0 THEN <<"-">> \o NatToStr(-n) ELSE NatToStr(n)

\* repr of a float given in tenths: -5 is "-0.5", 15 is "1.5"
FloatToStr(n) ==
    LET a == IF n < 0 THEN -n ELSE n
    IN  (IF n < 0 THEN <<"-">> ELSE <<>>) \o NatToStr(a \div 10) \o <<".">>
            \o NatToStr(a % 10)

\* str(value)
str(value) ==
    CASE value.t = "str" -> value.s
      [] value.t = "int" -> IntToStr(value.n)
      [] value.t = "bool" -> IF value.n = 1 THEN <<"T", "r", "u", "e">>
                             ELSE <<"F", "a", "l", "s", "e">>
      [] value.t = "float" -> FloatToStr(value.n)
      [] OTHER -> <<"N", "o", "n", "e">>

LowerChar(c) == IF c = "T" THEN "t" ELSE IF c = "F" THEN "f" ELSE c
\* text.lower()
lower(s) == [i \in 1..Len(s) |-> LowerChar(s[i])]

\* addondev.utils.ensure_unicode: text stays, any other value is str(value)
ensure_unicode(value) == PyStr(str(value))

\* addondev.utils.ensure_native_str: text stays, any other value is str(value)
ensure_native_str(value) == PyStr(str(value))

RECURSIVE DigitsToNat(_)
DigitsToNat(s) ==
    IF s = <<>> THEN 0
    ELSE 10 * DigitsToNat(SubSeq(s, 1, Len(s) - 1)) + DigitVal(s[Len(s)])

AllDigits(s) == s # <<>> /\ \A i \in 1..Len(s) : s[i] \in DigitSet

\* int(text): an optional sign and decimal digits; anything else is a ValueError.
\* int(value) of an int, bool or float value is its integer part.
int(value) ==
    IF value.t = "str" THEN
        LET s == value.s
            signed == s # <<>> /\ s[1] \in {"-", "+"}
            body == IF signed THEN Tail(s) ELSE s
        IN  IF AllDigits(body)
            THEN [exc |-> "", val |-> PyInt(IF signed /\ s[1] = "-"
                                            THEN -DigitsToNat(body)
                                            ELSE DigitsToNat(body))]
            ELSE [exc |-> "ValueError", val |-> PyNone]
    ELSE IF value.t = "none" THEN [exc |-> "TypeError", val |-> PyNone]
    ELSE IF value.t = "float" THEN
        [exc |-> "", val |-> PyInt(IF value.n < 0 THEN -((-value.n) \div 10)
                                   ELSE value.n \div 10)]
    ELSE [exc |-> "", val |-> PyInt(value.n)]

--------------------------------------------------------------------------
(* xbmcaddon: the registry and the inputs of the calls *)

AddonIds == {"a1", "a2"}            \* keys of _support.avail_addons
UnknownId == "zz"                   \* an identifier the registry lacks
SettingIds == {"k1", "k2"}
InfoKeys == {"id", "version", "stars", "nokey"}

\* the informational attributes of a registry record
AddonInfo(a) ==
    [k \in {"id", "version", "stars"} |->
        CASE k = "id" -> PyStr(<<a>>)
          [] k = "version" -> PyStr(<<"1", ".", "0">>)
          [] OTHER -> PyInt(5)]

\* one value of each type a caller may pass: "1", 1, True, 0.5
TextInputs == {PyStr(<<"1">>)}
IntInputs == {PyInt(1)}
BoolInputs == {True}
FloatInputs == {PyFloat(5)}
Inputs == TextInputs \cup IntInputs \cup BoolInputs \cup FloatInputs
RoundTripInputs == {PyInt(n) : n \in -MaxRoundTrip..MaxRoundTrip} \cup BoolInputs
OverrideValues == {PyStr(<<"o">>)}

NoCall == [op |-> "none", id |-> "", arg |-> PyNone, exc |-> "", val |-> PyNone]
Call(op, id, arg, exc, val) ==
    [op |-> op, id |-> id, arg |-> arg, exc |-> exc, val |-> val]

\* d with key k bound to v
Put(d, k, v) == [x \in DOMAIN d \cup {k} |-> IF x = k THEN v ELSE d[x]]
\* d without key k
Del(d, k) == [x \in DOMAIN d \ {k} |-> d[x]]
EmptyMap == [x \in {} |-> PyNone]

--------------------------------------------------------------------------
(* xbmcaddon.Addon *)

\* Addon(id): id = "" stands for the omitted argument (None).  self_data is
\* the accessor the construction yields: none when it raises.
Addon__init___bad(id) ==
    LET rid == IF id = "" THEN plugin_id ELSE id
    IN  /\ self_data' = IF rid \in AddonIds THEN rid ELSE "none"
        /\ ret' = Call("Addon", id, PyNone, "", PyNone)
        /\ UNCHANGED <<plugin_id, settings, mock_setting, kodi_paths, vfsVars>>
Addon__init__(id) ==
    LET rid == IF id = "" THEN plugin_id ELSE id
    IN  /\ IF rid \in AddonIds
           THEN /\ self_data' = rid
                /\ ret' = Call("Addon", id, PyNone, "", PyNone)
           ELSE /\ self_data' = "none"
                /\ ret' = Call("Addon", id, PyNone, "RuntimeError", PyNone)
        /\ UNCHANGED <<plugin_id, settings, mock_setting, kodi_paths, vfsVars>>

\* getattr(self._data, id, "")
getattr(a, key) ==
    IF key \in DOMAIN AddonInfo(a) THEN AddonInfo(a)[key] ELSE PyStr(<<>>)

getAddonInfo(id) ==
    /\ self_data # "none"
    /\ ret' = Call("getAddonInfo", id, PyNone, "",
                   ensure_native_str(getattr(self_data, id)))
    /\ UNCHANGED <<addonVars, kodi_paths, vfsVars>>

\* the result of self.getSetting(id): override table first, else the addon's own
getSettingResult_bad(id) ==
    IF id \in DOMAIN settings[self_data]
    THEN [exc |-> "", val |-> settings[self_data][id]]
    ELSE IF id \in DOMAIN mock_setting
    THEN [exc |-> "", val |-> mock_setting[id]]
    ELSE [exc |-> "KeyError", val |-> PyNone]
getSettingResult(id) ==
    IF id \in DOMAIN mock_setting
    THEN [exc |-> "", val |-> mock_setting[id]]
    ELSE IF id \in DOMAIN settings[self_data]
    THEN [exc |-> "", val |-> settings[self_data][id]]
    ELSE [exc |-> "KeyError", val |-> PyNone]

getSetting(id) ==
    /\ self_data # "none"
    /\ LET r == getSettingResult(id)
       IN  ret' = Call("getSetting", id, PyNone, r.exc, r.val)
    /\ UNCHANGED <<addonVars, kodi_paths, vfsVars>>

\* the result of self.getSettingInt(id)
getSettingIntResult_bad(id) ==
    LET r == getSettingResult(id)
    IN  IF r.exc # "" THEN r
        ELSE [exc |-> "", val |-> PyInt(IF r.val = PyStr(<<"1">>) THEN 1 ELSE 0)]
getSettingIntResult(id) ==
    LET r == getSettingResult(id)
    IN  IF r.exc # "" THEN r ELSE int(r.val)

getSettingInt(id) ==
    /\ self_data # "none"
    /\ LET r == getSettingIntResult(id)
       IN  ret' = Call("getSettingInt", id, PyNone, r.exc, r.val)
    /\ UNCHANGED <<addonVars, kodi_paths, vfsVars>>

getSettingString(id) ==
    /\ self_data # "none"
    /\ LET r == getSettingResult(id)
       IN  ret' = Call("getSettingString", id, PyNone, r.exc, r.val)
    /\ UNCHANGED <<addonVars, kodi_paths, vfsVars>>

\* self._data.settings[id] = value; return True
\* op and arg are those of the public method that was called
store_bad(op, id, arg, value) ==
    /\ mock_setting' = Put(mock_setting, id, value)
    /\ settings' = settings
    /\ ret' = Call(op, id, arg, "", True)
store(op, id, arg, value) ==
    /\ settings' = [settings EXCEPT ![self_data] = Put(@, id, value)]
    /\ mock_setting' = mock_setting
    /\ ret' = Call(op, id, arg, "", True)

\* the typed setter found the wrong type: return False
refuse(op, id, arg) ==
    /\ ret' = Call(op, id, arg, "", False)
    /\ UNCHANGED <<settings, mock_setting>>

setSetting(id, value) ==
    /\ self_data # "none"
    /\ store("setSetting", id, value, value)
    /\ UNCHANGED <<plugin_id, self_data, kodi_paths, vfsVars>>

setSettingString(id, value) ==
    /\ self_data # "none"
    /\ store("setSettingString", id, value, ensure_unicode(value))
    /\ UNCHANGED <<plugin_id, self_data, kodi_paths, vfsVars>>

setSettingBool(id, value) ==
    /\ self_data # "none"
    /\ IF isinstance(value, "bool")
       THEN store("setSettingBool", id, value, PyStr(lower(str(value))))
       ELSE refuse("setSettingBool", id, value)
    /\ UNCHANGED <<plugin_id, self_data, kodi_paths, vfsVars>>

setSettingInt(id, value) ==
    /\ self_data # "none"
    /\ IF isinstance(value, "int")
       THEN store("setSettingInt", id, value, ensure_unicode(value))
       ELSE refuse("setSettingInt", id, value)
    /\ UNCHANGED <<plugin_id, self_data, kodi_paths, vfsVars>>

setSettingNumber(id, value) ==
    /\ self_data # "none"
    /\ IF isinstance(value, "float")
       THEN store("setSettingNumber", id, value, ensure_unicode(value))
       ELSE refuse("setSettingNumber", id, value)
    /\ UNCHANGED <<plugin_id, self_data, kodi_paths, vfsVars>>

\* a test harness writes mock_data["setting"][id] = value directly
InjectOverride(id, value) ==
    /\ mock_setting' = Put(mock_setting, id, value)
    /\ ret' = Call("inject", id, value, "", PyNone)
    /\ UNCHANGED <<plugin_id, settings, self_data, kodi_paths, vfsVars>>

\* a test harness removes an override: del mock_data["setting"][id]
ClearOverride(id) ==
    /\ id \in DOMAIN mock_setting
    /\ mock_setting' = Del(mock_setting, id)
    /\ ret' = Call("clear", id, PyNone, "", PyNone)
    /\ UNCHANGED <<plugin_id, settings, self_data, kodi_paths, vfsVars>>

--------------------------------------------------------------------------
(* Specification of the addon accessor *)

FsIdle == [p \in {} |-> 0]
FhIdle == [st |-> "none", path |-> <<>>, mode |-> "", pos |-> 0, buf |-> <<>>]

InitAddon ==
    /\ plugin_id \in {"a1", UnknownId}
    /\ settings = [a \in AddonIds |->
                      IF a = "a2" THEN Put(EmptyMap, "k1", PyStr(<<"1">>)) ELSE EmptyMap]
    /\ mock_setting = EmptyMap
    /\ self_data = "none"
    /\ fs = FsIdle
    /\ fh = FhIdle
    /\ kodi_paths = EmptyMap
    /\ pc = "idle"
    /\ ret = NoCall

NextAddon ==
    \/ \E id \in AddonIds \cup {UnknownId, ""} : Addon__init__(id)
    \/ \E key \in InfoKeys : getAddonInfo(key)
    \/ \E id \in SettingIds : getSetting(id)
    \/ \E id \in SettingIds : getSettingInt(id)
    \/ \E id \in SettingIds : getSettingString(id)
    \/ \E id \in SettingIds, value \in TextInputs : setSetting(id, value)
    \/ \E id \in SettingIds, value \in Inputs : setSettingString(id, value)
    \/ \E id \in SettingIds, value \in Inputs : setSettingBool(id, value)
    \/ \E id \in SettingIds, value \in Inputs : setSettingInt(id, value)
    \/ \E id \in SettingIds, value \in Inputs : setSettingNumber(id, value)
    \/ \E id \in SettingIds, value \in OverrideValues : InjectOverride(id, value)
    \/ \E id \in SettingIds : ClearOverride(id)

SpecAddon == InitAddon /\ [][NextAddon]_vars

\* the round trip of setSettingInt and getSettingInt, over more ints
NextRoundTrip ==
    \/ \E id \in AddonIds : Addon__init__(id)
    \/ \E value \in RoundTripInputs : setSettingInt("k1", value)
    \/ getSettingInt("k1")
    \/ \E value \in OverrideValues : InjectOverride("k1", value)
    \/ ClearOverride("k1")

SpecRoundTrip == InitAddon /\ [][NextRoundTrip]_vars

--------------------------------------------------------------------------
(* Claims about the addon accessor *)

Getters == {"getSetting", "getSettingString"}
Setters == {"setSetting", "setSettingString", "setSettingBool", "setSettingInt",
            "setSettingNumber"}

\* C1: when a setting id has both an override value and an addon-stored value,
\* getSetting and getSettingString return the override value.
C1_OverridePrecedence ==
    (/\ ret.op \in Getters
     /\ ret.id \in DOMAIN mock_setting
     /\ ret.id \in DOMAIN settings[self_data])
        => (ret.exc = "" /\ ret.val = mock_setting[ret.id])

C1_Witness ==
    /\ ret.op = "getSetting"
    /\ ret.id \in DOMAIN mock_setting
    /\ ret.id \in DOMAIN settings[self_data]
    /\ settings[self_data][ret.id] # mock_setting[ret.id]
    /\ ret.val = mock_setting[ret.id]

\* C2: a setter call, successful or not, leaves the override table unchanged;
\* a refused call changes no settings; a successful one changes only the entry
\* of the given id in the settings of the accessor's own addon record.
C2_WritesLeaveOverride ==
    [][ret'.op \in Setters =>
        /\ mock_setting' = mock_setting
        /\ ret'.val = False => settings' = settings
        /\ \A a \in AddonIds :
             a # self_data => settings'[a] = settings[a]
        /\ \A k \in SettingIds :
             k # ret'.id =>
               /\ (k \in DOMAIN settings'[self_data]) = (k \in DOMAIN settings[self_data])
               /\ k \in DOMAIN settings[self_data]
                    => settings'[self_data][k] = settings[self_data][k]]_vars

C2_Witness ==
    /\ ret.op \in Setters
    /\ ret.val = True
    /\ ret.id \in DOMAIN mock_setting
    /\ ret.id \in DOMAIN settings[self_data]
    /\ \E k \in SettingIds : k # ret.id /\ k \in DOMAIN settings[self_data]
    /\ \E a \in AddonIds : a # self_data /\ settings[a] # EmptyMap

\* C3: with no override for the id, setSettingInt(id, v) for an integer v
\* followed by getSettingInt(id) on the same accessor returns v.
C3_IntRoundTrip ==
    [][(/\ ret.op = "setSettingInt"
        /\ ret.arg.t = "int"
        /\ ret'.op = "getSettingInt"
        /\ ret'.id = ret.id
        /\ ret.id \notin DOMAIN mock_setting)
          => (ret'.exc = "" /\ ret'.val = ret.arg)]_vars

C3_Witness ==
    /\ ret.op = "getSettingInt"
    /\ ret.id \notin DOMAIN mock_setting
    /\ ret.exc = ""
    /\ ret.val = PyInt(-MaxRoundTrip)

TypeOf(op) ==
    CASE op = "setSettingBool" -> "bool"
      [] op = "setSettingInt" -> "int"
      [] op = "setSettingNumber" -> "float"

\* C4: setSettingBool, setSettingInt and setSettingNumber return False and
\* leave the settings unchanged when the value's actual type is not bool, int
\* and float respectively, and store the value and return True when it is.
C4_TypedSettersValidate ==
    [][ret'.op \in {"setSettingBool", "setSettingInt", "setSettingNumber"} =>
        IF ret'.arg.t = TypeOf(ret'.op)
        THEN /\ ret'.val = True
             /\ ret'.id \in DOMAIN settings'[self_data]
        ELSE /\ ret'.val = False
             /\ settings' = settings]_vars

\* C8: constructing an Addon fails for an identifier the registry lacks (the
\* active one included, when the argument is omitted) and yields no accessor;
\* for a registered identifier it yields the accessor of that record, and
\* getAddonInfo never fails and gives empty text for a key the record lacks.
C8_Construction ==
    /\ ret.op = "Addon" =>
         LET rid == IF ret.id = "" THEN plugin_id ELSE ret.id
         IN  IF rid \in AddonIds
             THEN ret.exc = "" /\ self_data = rid
             ELSE ret.exc # "" /\ self_data = "none"
    /\ ret.op = "getAddonInfo" =>
         /\ ret.exc = ""
         /\ ret.val.t = "str"
         /\ ret.id \notin DOMAIN AddonInfo(self_data) => ret.val.s = <<>>

C8_Witness ==
    /\ ret.op = "Addon"
    /\ ret.id = ""
    /\ plugin_id = UnknownId
    /\ ret.exc = "RuntimeError"
    /\ self_data = "none"

--------------------------------------------------------------------------
(* The host filesystem (POSIX) *)

Names == {"a", "b"}
\* a real path is the sequence of its components: <<"a", "b">> is /a/b
Root == <<>>
Paths == {<<x>> : x \in Names} \cup {<<x, y>> : x, y \in Names}
FileData == {<<"x">>, <<"y">>}

Absent == [kind |-> "none", data |-> <<>>]
Dir == [kind |-> "dir", data |-> <<>>]
\* a node that is neither a regular file nor a directory (FIFO, socket, ...)
Other == [kind |-> "other", data |-> <<>>]
RegFile(data) == [kind |-> "file", data |-> data]
Nodes == {Absent, Dir, Other} \cup {RegFile(d) : d \in FileData}

Parent(p) == SubSeq(p, 1, Len(p) - 1)
Exists(f, p) == p = Root \/ f[p].kind # "none"
IsDir(f, p) == p = Root \/ f[p].kind = "dir"
\* os.path.isfile
isfile(f, p) == p # Root /\ f[p].kind = "file"
Children(f, p) == {q \in Paths : Parent(q) = p /\ f[q].kind # "none"}
\* p is q or lies below q
Within(p, q) == Len(p) >= Len(q) /\ SubSeq(p, 1, Len(q)) = q

\* only directories have entries
WellFormed(f) == \A p \in Paths : f[p].kind # "none" => IsDir(f, Parent(p))

\* the error of resolving a path that does not exist
LookupError(f, p) ==
    IF Exists(f, Parent(p)) /\ ~IsDir(f, Parent(p))
    THEN "NotADirectoryError" ELSE "FileNotFoundError"

\* OSError and its subclasses: what "except EnvironmentError" catches
EnvironmentError ==
    {"OSError", "FileNotFoundError", "FileExistsError", "NotADirectoryError",
     "IsADirectoryError", "PermissionError", "SpecialFileError", "SameFileError",
     "UnsupportedOperation"}
\* shutil.Error and its subclass SameFileError: what "except shutil.Error" catches
shutil_Error == {"Error", "SameFileError"}

Ok(f) == [exc |-> "", fs |-> f]
Fail(e, f) == [exc |-> e, fs |-> f]

os_remove(f, p) ==
    IF ~Exists(f, p) THEN Fail(LookupError(f, p), f)
    ELSE IF f[p].kind = "dir" THEN Fail("IsADirectoryError", f)
    ELSE Ok([f EXCEPT ![p] = Absent])

os_mkdir(f, p) ==
    IF Exists(f, p) THEN Fail("FileExistsError", f)
    ELSE IF ~Exists(f, Parent(p)) THEN Fail("FileNotFoundError", f)
    ELSE IF ~IsDir(f, Parent(p)) THEN Fail("NotADirectoryError", f)
    ELSE Ok([f EXCEPT ![p] = Dir])

\* os.makedirs(name): makes the missing ancestors first, then the leaf
RECURSIVE os_makedirs(_, _)
os_makedirs(f, p) ==
    LET head == Parent(p)
        r == IF head # Root /\ ~Exists(f, head) THEN os_makedirs(f, head) ELSE Ok(f)
    IN  IF r.exc \notin {"", "FileExistsError"} THEN r ELSE os_mkdir(r.fs, p)

os_rmdir(f, p) ==
    IF ~Exists(f, p) THEN Fail(LookupError(f, p), f)
    ELSE IF f[p].kind # "dir" THEN Fail("NotADirectoryError", f)
    ELSE IF Children(f, p) # {} THEN Fail("OSError", f)
    ELSE Ok([f EXCEPT ![p] = Absent])

\* the path q, which lies within s, after s was renamed to d
Moved(q, s, d) == d \o SubSeq(q, Len(s) + 1, Len(q))

os_rename(f, s, d) ==
    IF ~Exists(f, s) THEN Fail(LookupError(f, s), f)
    ELSE IF ~Exists(f, Parent(d)) THEN Fail("FileNotFoundError", f)
    ELSE IF ~IsDir(f, Parent(d)) THEN Fail("NotADirectoryError", f)
    ELSE IF s = d THEN Ok(f)
    ELSE IF f[s].kind = "dir" /\ Within(d, s) THEN Fail("OSError", f)
    ELSE IF f[s].kind = "dir" /\ Exists(f, d) /\ f[d].kind # "dir"
    THEN Fail("NotADirectoryError", f)
    ELSE IF f[s].kind = "dir" /\ Exists(f, d) /\ Children(f, d) # {}
    THEN Fail("OSError", f)
    ELSE IF f[s].kind # "dir" /\ Exists(f, d) /\ f[d].kind = "dir"
    THEN Fail("IsADirectoryError", f)
    ELSE Ok([q \in Paths |->
                IF Within(q, d)
                THEN (IF \E o \in Paths : Within(o, s) /\ Moved(o, s, d) = q
                      THEN f[CHOOSE o \in Paths : Within(o, s) /\ Moved(o, s, d) = q]
                      ELSE Absent)
                ELSE IF Within(q, s) THEN Absent
                ELSE f[q]])

\* the renamed tree stays within the modelled paths
Representable(f, s, d) ==
    \A o \in Paths : (Exists(f, o) /\ Within(o, s)) => Moved(o, s, d) \in Paths

\* shutil.copyfile(src, dst)
shutil_copyfile(f, s, d) ==
    IF s = d /\ Exists(f, s) THEN Fail("SameFileError", f)
    ELSE IF (Exists(f, s) /\ f[s].kind = "other") \/ (Exists(f, d) /\ f[d].kind = "other")
    THEN Fail("SpecialFileError", f)
    ELSE IF ~Exists(f, s) THEN Fail(LookupError(f, s), f)
    ELSE IF f[s].kind = "dir" THEN Fail("IsADirectoryError", f)
    ELSE IF ~Exists(f, Parent(d)) THEN Fail("FileNotFoundError", f)
    ELSE IF ~IsDir(f, Parent(d)) THEN Fail("NotADirectoryError", f)
    ELSE IF Exists(f, d) /\ f[d].kind = "dir" THEN Fail("IsADirectoryError", f)
    ELSE Ok([f EXCEPT ![d] = RegFile(f[s].data)])

\* what the operating system does with a call: the call itself, or a refusal
\* (no permission) that leaves the filesystem as it is
Denied == {FALSE, TRUE}
Outcome(denied, r, f) == IF denied THEN Fail("PermissionError", f) ELSE r

--------------------------------------------------------------------------
(* xbmcvfs: the boolean-result functions and listdir.  Path arguments are   *)
(* real paths, which safe_path hands on as they are.                        *)

\* try: <call> / except <caught>: return False / else: return True
TryBool(op, p, q, r, caught) ==
    /\ fs' = r.fs
    /\ ret' = IF r.exc = "" THEN Call(op, p, q, "", True)
              ELSE IF r.exc \in caught THEN Call(op, p, q, "", False)
              ELSE Call(op, p, q, r.exc, PyNone)
    /\ UNCHANGED <<addonVars, kodi_paths, fh, pc>>

copy(source, destination, denied) ==
    TryBool("copy", source, destination,
            Outcome(denied, shutil_copyfile(fs, source, destination), fs),
            shutil_Error)

deleteFile(file, denied) ==
    TryBool("deleteFile", file, Root, Outcome(denied, os_remove(fs, file), fs),
            EnvironmentError)

mkdir(path, denied) ==
    TryBool("mkdir", path, Root, Outcome(denied, os_mkdir(fs, path), fs),
            EnvironmentError)

mkdirs(path, denied) ==
    TryBool("mkdirs", path, Root, Outcome(denied, os_makedirs(fs, path), fs),
            EnvironmentError)

rename(file, newFile, denied) ==
    /\ Representable(fs, file, newFile)
    /\ TryBool("rename", file, newFile,
               Outcome(denied, os_rename(fs, file, newFile), fs), EnvironmentError)

rmdir(path, denied) ==
    TryBool("rmdir", path, Root, Outcome(denied, os_rmdir(fs, path), fs),
            EnvironmentError)

\* the last component of a path
Base(p) == p[Len(p)]
\* the orders in which os.listdir may report the entries of a directory
Orders(S) ==
    {o \in [1..Cardinality(S) -> S] : \A i, j \in 1..Cardinality(S) : i # j => o[i] # o[j]}

\* os.path.join(path, item_name)
os_path_join(path, item_name) == Append(path, item_name)

\* the loop of listdir over the entries in the order given: (dirs, files)
Partition_bad(f, path, order) ==
    LET IsDirEntry(n) == IsDir(f, os_path_join(path, n))
        NotDirEntry(n) == ~IsDir(f, os_path_join(path, n))
    IN  PyPair(SelectSeq(order, IsDirEntry), SelectSeq(order, NotDirEntry))
Partition(f, path, order) ==
    LET IsFile(n) == isfile(f, os_path_join(path, n))
        NotFile(n) == ~isfile(f, os_path_join(path, n))
    IN  PyPair(SelectSeq(order, NotFile), SelectSeq(order, IsFile))

listdir(path, denied) ==
    /\ IF denied THEN ret' = Call("listdir", path, Root, "PermissionError", PyNone)
       ELSE IF ~Exists(fs, path)
       THEN ret' = Call("listdir", path, Root, LookupError(fs, path), PyNone)
       ELSE IF ~IsDir(fs, path)
       THEN ret' = Call("listdir", path, Root, "NotADirectoryError", PyNone)
       ELSE \E order \in Orders({Base(q) : q \in Children(fs, path)}) :
                ret' = Call("listdir", path, Root, "", Partition(fs, path, order))
    /\ UNCHANGED <<addonVars, kodi_paths, vfsVars>>

InitVfs ==
    /\ plugin_id = "a1"
    /\ settings = [a \in AddonIds |-> EmptyMap]
    /\ mock_setting = EmptyMap
    /\ self_data = "none"
    /\ fs \in {f \in [Paths -> Nodes] : WellFormed(f)}
    /\ fh = FhIdle
    /\ kodi_paths = EmptyMap
    /\ pc = "idle"
    /\ ret = Call("none", Root, Root, "", PyNone)

NextVfs ==
    \/ \E s \in Paths, d \in Paths, denied \in Denied : copy(s, d, denied)
    \/ \E p \in Paths, denied \in Denied : deleteFile(p, denied)
    \/ \E p \in Paths, denied \in Denied : mkdir(p, denied)
    \/ \E p \in Paths, denied \in Denied : mkdirs(p, denied)
    \/ \E s \in Paths, d \in Paths, denied \in Denied : rename(s, d, denied)
    \/ \E p \in Paths, denied \in Denied : rmdir(p, denied)
    \/ \E p \in Paths \cup {Root}, denied \in Denied : listdir(p, denied)

SpecVfs == InitVfs /\ [][NextVfs]_vars

--------------------------------------------------------------------------
(* Claims about the filesystem functions *)

\* C5: when the source does not exist, copy returns False without raising and
\* does not create a destination that did not exist.
C5_CopyMissingSource ==
    [][(ret'.op = "copy" /\ ~Exists(fs, ret'.id)) =>
        /\ ret'.exc = ""
        /\ ret'.val = False
        /\ ~Exists(fs, ret'.arg) => ~Exists(fs', ret'.arg)]_vars

\* the destination part of C5 alone
C5_DestinationNotCreated ==
    [][(ret'.op = "copy" /\ ~Exists(fs, ret'.id) /\ ~Exists(fs, ret'.arg))
          => ~Exists(fs', ret'.arg)]_vars

BoolOps == {"copy", "deleteFile", "mkdir", "mkdirs", "rename", "rmdir"}

\* the OS operation behind a boolean-result function, on the filesystem f
Primitive(op, f, p, q) ==
    CASE op = "copy" -> shutil_copyfile(f, p, q)
      [] op = "deleteFile" -> os_remove(f, p)
      [] op = "mkdir" -> os_mkdir(f, p)
      [] op = "mkdirs" -> os_makedirs(f, p)
      [] op = "rename" -> os_rename(f, p, q)
      [] op = "rmdir" -> os_rmdir(f, p)

BoolContract(ops) ==
    ret'.op \in ops =>
        /\ ret'.exc = ""
        /\ ret'.val \in {True, False}
        /\ ret'.val = True =>
             LET r == Primitive(ret'.op, fs, ret'.id, ret'.arg)
             IN  r.exc = "" /\ fs' = r.fs
        /\ ret'.val = False => fs' = fs
        /\ Primitive(ret'.op, fs, ret'.id, ret'.arg).exc # "" => ret'.val = False

\* C6: copy, deleteFile, mkdir, mkdirs, rename and rmdir return True exactly
\* when the OS operation succeeds and False on any OS failure; no OS failure
\* reaches the caller as an error.
C6_BoolOpsNeverRaise == [][BoolContract(BoolOps)]_vars

\* the same for the five functions other than copy
C6_OtherThanCopy == [][BoolContract(BoolOps \ {"copy"})]_vars

\* the names in the sequence s
Range(s) == {s[i] : i \in 1..Len(s)}
Count(s, x) == Cardinality({i \in 1..Len(s) : s[i] = x})

\* what listdir gives for a directory: each entry once, the set inFiles in
\* files and the set inDirs in dirs
Listed(val, entries, inFiles, inDirs) ==
    LET all == val.s[1] \o val.s[2]
    IN  /\ Range(all) = entries
        /\ \A n \in entries : Count(all, n) = 1
        /\ \A n \in entries : n \in Range(val.s[2]) <=> n \in inFiles
        /\ \A n \in entries : n \in Range(val.s[1]) <=> n \in inDirs

EntriesOfKind(f, path, kinds) ==
    {Base(q) : q \in {c \in Children(f, path) : f[c].kind \in kinds}}

ListdirContract(fileKinds, dirKinds) ==
    ret'.op = "listdir" =>
        /\ fs' = fs
        /\ (~Exists(fs, ret'.id) \/ ~IsDir(fs, ret'.id)) => ret'.exc # ""
        /\ ret'.exc = "" =>
             Listed(ret'.val, EntriesOfKind(fs, ret'.id, {"file", "dir", "other"}),
                    EntriesOfKind(fs, ret'.id, fileKinds),
                    EntriesOfKind(fs, ret'.id, dirKinds))

\* C10 as stated: listdir of an existing directory lists every entry once, an
\* entry in files exactly when it is a file and in dirs exactly when it is a
\* subdirectory, and leaves the filesystem unchanged; on a missing path or a
\* path that is no directory it raises.
C10_ListdirPartition == [][ListdirContract({"file"}, {"dir"})]_vars

\* C10 as amended: an entry is in files exactly when it is a regular file and
\* in dirs exactly when it is not (a subdirectory, or an entry that is neither
\* file nor directory); the rest as stated.
C10_ListdirPartitionAmended == [][ListdirContract({"file"}, {"dir", "other"})]_vars

C10_Witness ==
    /\ ret.op = "listdir"
    /\ ret.id = <<"a">>
    /\ ret.exc = ""
    /\ fs[<<"a", "a">>].kind = "file"
    /\ fs[<<"a", "b">>].kind = "other"
    /\ fs[<<"b">>].kind = "dir"
    /\ ret.val = PyPair(<<"b">>, <<"a">>)

--------------------------------------------------------------------------
(* xbmcvfs.File: a text-mode file object of Python 3 *)

Chars == {"a", "\r", "\n"}
Contents == UNION {[1..n -> Chars] : n \in 0..MaxLen}
Hints == 0..MaxHint

\* os.linesep of the host
linesep == <<"\n">>

\* what a text-mode write puts in the file: each "\n" becomes os.linesep
RECURSIVE WriteNewlines(_)
WriteNewlines(s) ==
    IF s = <<>> THEN <<>>
    ELSE (IF s[1] = "\n" THEN linesep ELSE <<s[1]>>) \o WriteNewlines(Tail(s))

\* what a text-mode read gives (universal newlines): "\r\n" and "\r" become "\n"
RECURSIVE ReadNewlines(_)
ReadNewlines(s) ==
    IF s = <<>> THEN <<>>
    ELSE IF s[1] = "\r"
    THEN <<"\n">> \o ReadNewlines(IF Len(s) >= 2 /\ s[2] = "\n"
                                   THEN SubSeq(s, 3, Len(s)) ELSE Tail(s))
    ELSE <<s[1]>> \o ReadNewlines(Tail(s))

\* open(path, mode) for mode "w" or "r": the error, or "" and the filesystem
open(f, path, mode) ==
    IF mode = "w" THEN
        IF ~Exists(f, Parent(path)) THEN Fail("FileNotFoundError", f)
        ELSE IF ~IsDir(f, Parent(path)) THEN Fail("NotADirectoryError", f)
        ELSE IF f[path].kind = "dir" THEN Fail("IsADirectoryError", f)
        ELSE Ok([f EXCEPT ![path] = RegFile(<<>>)])
    ELSE
        IF ~Exists(f, path) THEN Fail(LookupError(f, path), f)
        ELSE IF f[path].kind = "dir" THEN Fail("IsADirectoryError", f)
        ELSE Ok(f)

\* File(filepath, mode): mode = "" stands for the omitted argument (None)
File__init__(filepath, mode) ==
    LET m == IF mode # "" THEN mode ELSE "r"
        r == open(fs, filepath, m)
    IN  /\ fh.st # "open"
        /\ fs[filepath].kind # "other"
        /\ fs' = r.fs
        /\ fh' = IF r.exc = ""
                 THEN [st |-> "open", path |-> filepath, mode |-> m, pos |-> 0,
                       buf |-> <<>>]
                 ELSE FhIdle
        /\ ret' = Call("File", filepath, PyStr(<<mode>>), r.exc, PyNone)
        /\ UNCHANGED <<addonVars, kodi_paths>>

\* File.close: the buffered text reaches the file
close ==
    /\ fh.st # "none"
    /\ fs' = IF fh.st = "open" /\ fh.mode = "w"
             THEN [fs EXCEPT ![fh.path] = RegFile(@.data \o fh.buf)]
             ELSE fs
    /\ fh' = [fh EXCEPT !.st = "closed", !.buf = <<>>]
    /\ ret' = Call("close", fh.path, PyNone, "", PyNone)
    /\ UNCHANGED <<addonVars, kodi_paths>>

\* File.read(numBytes): self._file.read(), the hint is not passed on
read(numBytes) ==
    /\ fh.st # "none"
    /\ IF fh.st = "closed"
       THEN fh' = fh /\ ret' = Call("read", fh.path, PyInt(numBytes), "ValueError", PyNone)
       ELSE IF fh.mode # "r"
       THEN fh' = fh /\ ret' = Call("read", fh.path, PyInt(numBytes),
                                    "UnsupportedOperation", PyNone)
       ELSE /\ fh' = [fh EXCEPT !.pos = Len(fs[fh.path].data)]
            /\ ret' = Call("read", fh.path, PyInt(numBytes), "",
                           PyStr(ReadNewlines(SubSeq(fs[fh.path].data, fh.pos + 1,
                                                     Len(fs[fh.path].data)))))
    /\ UNCHANGED <<addonVars, kodi_paths, fs>>

\* File.write(buffer): False on an EnvironmentError of the underlying write
write(buffer) ==
    /\ fh.st # "none"
    /\ IF fh.st = "closed"
       THEN fh' = fh /\ ret' = Call("write", fh.path, PyStr(buffer), "ValueError", PyNone)
       ELSE IF fh.mode # "w"
       THEN fh' = fh /\ ret' = Call("write", fh.path, PyStr(buffer), "", False)
       ELSE /\ fh' = [fh EXCEPT !.buf = @ \o WriteNewlines(buffer)]
            /\ ret' = Call("write", fh.path, PyStr(buffer), "", True)
    /\ UNCHANGED <<addonVars, kodi_paths, fs>>

\* The client of the File object: it opens P for writing, writes b, closes,
\* opens P again for reading, reads twice, closes, and starts over.
P == <<"a">>
At(at, b) == [at |-> at, b |-> b]

ClientOpenWrite ==
    /\ pc.at = "start"
    /\ File__init__(P, "w")
    /\ pc' = At("opened", <<>>)

ClientWrite(b) ==
    /\ pc.at = "opened"
    /\ write(b)
    /\ pc' = At("written", b)

ClientClose ==
    /\ pc.at = "written"
    /\ close
    /\ pc' = At("closed", pc.b)

ClientReopen ==
    /\ pc.at = "closed"
    /\ File__init__(P, "")
    /\ pc' = At("reopened", pc.b)

ClientRead(numBytes) ==
    /\ pc.at \in {"reopened", "read1"}
    /\ read(numBytes)
    /\ pc' = At(IF pc.at = "reopened" THEN "read1" ELSE "read2", pc.b)

ClientFinish ==
    /\ pc.at = "read2"
    /\ close
    /\ pc' = At("start", <<>>)

InitFile ==
    /\ plugin_id = "a1"
    /\ settings = [a \in AddonIds |-> EmptyMap]
    /\ mock_setting = EmptyMap
    /\ self_data = "none"
    /\ fs \in {[p \in Paths |-> Absent]}
              \cup {[p \in Paths |-> IF p = P THEN RegFile(c) ELSE Absent] :
                        c \in Contents}
    /\ fh = FhIdle
    /\ kodi_paths = EmptyMap
    /\ pc = At("start", <<>>)
    /\ ret = Call("none", Root, PyNone, "", PyNone)

NextFile ==
    \/ ClientOpenWrite
    \/ \E b \in Contents : ClientWrite(b)
    \/ ClientClose
    \/ ClientReopen
    \/ \E n \in Hints : ClientRead(n)
    \/ ClientFinish

SpecFile == InitFile /\ [][NextFile]_vars

\* C9: File(p, write mode), write(b) returning True, close(), then File(p)
\* opened again for reading: read() returns exactly b whatever the byte-count
\* hint, and a second read() returns empty content.
C9_WriteReadRoundTrip ==
    /\ pc.at = "read1" => (ret.exc = "" /\ ret.val = PyStr(pc.b))
    /\ pc.at = "read2" => (ret.exc = "" /\ ret.val = PyStr(<<>>))

\* the same for content without carriage returns
C9_WithoutCarriageReturn ==
    /\ (pc.at = "read1" /\ "\r" \notin Range(pc.b))
          => (ret.exc = "" /\ ret.val = PyStr(pc.b))
    /\ pc.at = "read2" => (ret.exc = "" /\ ret.val = PyStr(<<>>))

--------------------------------------------------------------------------
(* xbmcvfs.translatePath.  A path text is a sequence of atoms: the          *)
(* separator "/" or a separator-free piece of text ("special:", a name), no *)
(* two pieces adjacent.                                                     *)

Sep == "/"
Scheme == <<"special:", Sep, Sep>>                 \* "special://"
Words == {"special:", "masterprofile", "temp", "unknown", "x", "y"}

\* the virtual root table supplied by addondev.support
RootTable ==
    [k \in {<<"masterprofile">>, <<"temp">>} |->
        IF k = <<"masterprofile">>
        THEN <<Sep, "home", Sep, "user", Sep, "XBMC", Sep, "UserData">>
        ELSE <<Sep, "tmp", Sep>>]

\* the path texts of at most n atoms
RECURSIVE PathTexts(_)
PathTexts(n) ==
    IF n = 0 THEN {<<>>}
    ELSE LET shorter == PathTexts(n - 1)
         IN  shorter
             \cup {Append(t, Sep) : t \in shorter}
             \cup {Append(t, w) : t \in {u \in shorter : u = <<>> \/ u[Len(u)] = Sep},
                                  w \in Words}

PathInputs == PathTexts(MaxPathLen)

\* text.startswith(prefix)
startswith(text, prefix) ==
    Len(text) >= Len(prefix) /\ SubSeq(text, 1, Len(prefix)) = prefix

\* text.split(sep, maxsplit)
RECURSIVE split(_, _, _)
split(text, sep, maxsplit) ==
    IF maxsplit > 0 /\ \E i \in 1..Len(text) : text[i] = sep
    THEN LET i == CHOOSE k \in 1..Len(text) :
                     text[k] = sep /\ \A j \in 1..(k - 1) : text[j] # sep
         IN  <<SubSeq(text, 1, i - 1)>>
                 \o split(SubSeq(text, i + 1, Len(text)), sep, maxsplit - 1)
    ELSE <<text>>

\* posixpath.join(a, *p) on path texts
RECURSIVE posixpath_join(_, _)
posixpath_join(a, p) ==
    IF p = <<>> THEN a
    ELSE LET b == p[1]
             path == IF startswith(b, <<Sep>>) THEN b
                     ELSE IF a = <<>> \/ a[Len(a)] = Sep THEN a \o b
                     ELSE a \o <<Sep>> \o b
         IN  posixpath_join(path, Tail(p))

NotValidRoot == " is not a valid root dir."
UnpackError == "not enough values to unpack (expected 2, got 1)"

\* the result of translatePath(path): the exception and its message, or the text
translatePathResult(path) ==
    LET text == ensure_native_str(path).s
    IN  IF ~startswith(text, Scheme) THEN [exc |-> "", val |-> PyStr(text)]
        ELSE LET parts == split(text, Sep, 3)
                 rest == SubSeq(parts, 3, Len(parts))
             IN  IF Len(rest) # 2
                 THEN [exc |-> "ValueError", val |-> PyStr(<<UnpackError>>)]
                 ELSE LET special_path == rest[1]
                      IN  IF special_path \notin DOMAIN kodi_paths
                          THEN [exc |-> "ValueError",
                                val |-> PyStr(special_path \o <<NotValidRoot>>)]
                          ELSE [exc |-> "",
                                val |-> PyStr(posixpath_join(kodi_paths[special_path],
                                                  split(rest[2], Sep, Len(rest[2]))))]

translatePath(path) ==
    /\ LET r == translatePathResult(path)
       IN  ret' = Call("translatePath", Root, path, r.exc, r.val)
    /\ UNCHANGED <<addonVars, kodi_paths, fs, fh>>

\* The caller holds a path text and translates it.
CallerTranslate ==
    /\ pc.at = "start"
    /\ translatePath(PyStr(pc.b))
    /\ pc' = At("done", pc.b)

InitPath ==
    /\ plugin_id = "a1"
    /\ settings = [a \in AddonIds |-> EmptyMap]
    /\ mock_setting = EmptyMap
    /\ self_data = "none"
    /\ fs = FsIdle
    /\ fh = FhIdle
    /\ kodi_paths = RootTable
    /\ pc \in {At("start", text) : text \in PathInputs}
    /\ ret = Call("none", Root, PyNone, "", PyNone)

NextPath == CallerTranslate

SpecPath == InitPath /\ [][NextPath]_vars

--------------------------------------------------------------------------
(* Claims about translatePath *)

\* the text before the first separator of t, and the text after it
BeforeSep(t) == IF Sep \in Range(t) THEN split(t, Sep, 1)[1] ELSE t
AfterSep(t) == split(t, Sep, 1)[2]
\* the root-name segment of a special path, and whether a separator follows it
AfterScheme(text) == SubSeq(text, Len(Scheme) + 1, Len(text))
RootName(text) == BeforeSep(AfterScheme(text))
HasRest(text) == Sep \in Range(AfterScheme(text))

\* the non-empty components of a path text
Components(t) == SelectSeq(split(t, Sep, Len(t)), LAMBDA c : c # <<>>)

\* result is root joined with the "/"-separated components of rest
JoinedWith(result, root, rest) ==
    /\ startswith(result, root)
    /\ Components(result) = Components(root) \o Components(rest)

ExamplePath == Scheme \o <<"masterprofile", Sep, "x", Sep, "y">>
ExampleResult ==
    <<Sep, "home", Sep, "user", Sep, "XBMC", Sep, "UserData", Sep, "x", Sep, "y">>

\* the three cases of the claim; slashless tells whether case (2) also covers
\* a special path with no separator after its root name
TranslateContract(slashless) ==
    ret.op = "translatePath" =>
        LET text == ret.arg.s
        IN  /\ kodi_paths = RootTable
            /\ ~startswith(text, Scheme) => (ret.exc = "" /\ ret.val = ret.arg)
            /\ (/\ startswith(text, Scheme)
                /\ RootName(text) \notin DOMAIN RootTable
                /\ slashless \/ HasRest(text))
                  => /\ ret.exc = "ValueError"
                     /\ ret.val = PyStr(RootName(text) \o <<NotValidRoot>>)
            /\ (/\ startswith(text, Scheme)
                /\ HasRest(text)
                /\ RootName(text) \in DOMAIN RootTable)
                  => /\ ret.exc = ""
                     /\ JoinedWith(ret.val.s, RootTable[RootName(text)],
                                   AfterSep(AfterScheme(text)))
            /\ text = ExamplePath => ret.val = PyStr(ExampleResult)

\* C7: translatePath returns a path that does not begin with "special://"
\* unchanged; fails with a ValueError naming the root when the root-name
\* segment is not in the root table; for "special://<root>/<rest>" with a known
\* root gives the mapped root joined with the components of <rest>; and never
\* modifies the root table.
C7_TranslatePath == TranslateContract(TRUE)

\* the same, case (2) only for a special path with a separator after the root
C7_WithSeparatorAfterRoot == TranslateContract(FALSE)

==========================================================================
